---- MODULE Spec2Model ----
(***************************************************************************)
(* Model of app93.py: a Streamlit script that OCRs an uploaded PDF, asks a *)
(* chat-completion endpoint to fill missing values, renders the result as  *)
(* a PDF and answers questions about it.                                   *)
(*                                                                         *)
(* Texts are sequences of one-character strings.  Four specifications      *)
(* share the variables below:                                              *)
(*   Spec        the session: one action per user event, each of which     *)
(*               makes Streamlit run the script top to bottom;             *)
(*   SpecClient  the two completion clients called on their own;           *)
(*   SpecClean   clean_text applied once and twice to bounded inputs;      *)
(*   SpecPdf     generate_pdf, one action per iteration of its line loop.  *)
(***************************************************************************)
EXTENDS Integers, Sequences, FiniteSets, TLC

VARIABLES
    \* st.session_state and the widgets of the page
    uploaded_file,  \* file held by st.file_uploader: "none" or a document
    ocr_text,       \* st.session_state.ocr_text
    filled_text,    \* st.session_state.filled_text
    qa_history,     \* st.session_state.qa_history
    question,       \* value held by st.text_input("Your question:")
    event,          \* the user event that triggered the latest script run
    shown,          \* Q/A pairs rendered by the latest script run, top first
    ocr_runs,       \* pdf_to_text calls made so far, per document
    ocr_error,      \* TRUE iff pdf_to_text raised in the latest script run
    fill_call,      \* groq_fill_missing call of the latest run, or NoCall
    qa_call,        \* groq_answer_question call of the latest run, or NoCall
    \* clean_text under test
    cphase, cin, cout, cout2,
    \* generate_pdf
    ppc,            \* "idle", "loop" (inside the for loop), "done"
    y,              \* vertical cursor
    pages,          \* c.showPage() calls so far
    line,           \* the line handled by the latest loop iteration
    drew            \* drawString calls of the latest step: [y, text]

sessionVars == <<uploaded_file, ocr_text, filled_text, qa_history, question,
                 event, shown, ocr_runs, ocr_error, fill_call, qa_call>>
cleanVars == <<cphase, cin, cout, cout2>>
pdfVars == <<ppc, y, pages, line, drew>>
vars == <<sessionVars, cleanVars, pdfVars>>

----------------------------------------------------------------------------
(* Characters and whitespace                                               *)

\* The regex class [ \t] of clean_text's first substitution.
IsBlank(c) == c \in {" ", "\t"}

\* \s and str.strip() whitespace, within the modelled alphabet.
IsSpace(c) == c \in {" ", "\t", "\n"}

Max(S) == CHOOSE m \in S : \A n \in S : n <= m
Min(S) == CHOOSE m \in S : \A n \in S : m <= n

\* s[a:b] of Python on a sequence, 0-based half-open, written 1-based closed.
Slice(s, a, b) == IF a > b THEN <<>> ELSE SubSeq(s, a, b)

\* str.lstrip() and str.rstrip()
RECURSIVE LStrip(_)
LStrip(s) == IF s # <<>> /\ IsSpace(Head(s)) THEN LStrip(Tail(s)) ELSE s

RECURSIVE RStrip(_)
RStrip(s) ==
    IF s # <<>> /\ IsSpace(s[Len(s)]) THEN RStrip(SubSeq(s, 1, Len(s) - 1)) ELSE s

\* str.strip(): drop leading and trailing whitespace.
Strip(s) == RStrip(LStrip(s))

\* Python truthiness of "not line.strip()".
IsBlankLine(s) == Strip(s) = <<>>

----------------------------------------------------------------------------
(* clean_text                                                              *)

\* Last index of the run of [ \t] characters that starts at i.
BlankRunEnd(s, i) ==
    Max({j \in i..Len(s) : \A k \in i..j : IsBlank(s[k])})

RECURSIVE CollapsePairsFrom(_, _)
CollapsePairsFrom(s, i) ==
    IF i > Len(s) THEN <<>>
    ELSE IF i < Len(s) /\ IsBlank(s[i]) /\ IsBlank(s[i + 1])
         THEN <<" ">> \o CollapsePairsFrom(s, i + 2)
         ELSE <<s[i]>> \o CollapsePairsFrom(s, i + 1)

\* Mutant of CollapseBlanks: replaces pairs of blanks, not whole runs.
CollapseBlankPairs(s) == CollapsePairsFrom(s, 1)

RECURSIVE CollapseFrom(_, _)
CollapseFrom(s, i) ==
    IF i > Len(s) THEN <<>>
    ELSE IF IsBlank(s[i])
         THEN <<" ">> \o CollapseFrom(s, BlankRunEnd(s, i) + 1)
         ELSE <<s[i]>> \o CollapseFrom(s, i + 1)

\* re.sub(r'[ \t]+', ' ', text)
CollapseBlanks(s) == CollapseFrom(s, 1)

\* End of the leftmost-greedy match of \n\s*\n+ starting at i, or 0.
BlankLinesMatchEnd(s, i) ==
    IF s[i] # "\n" THEN 0
    ELSE LET w == Max({j \in i..Len(s) : \A k \in i..j : IsSpace(s[k])})
             ends == {j \in (i + 1)..w : s[j] = "\n"}
         IN  IF ends = {} THEN 0 ELSE Max(ends)

RECURSIVE BlankLinesFrom(_, _)
BlankLinesFrom(s, i) ==
    IF i > Len(s) THEN <<>>
    ELSE LET e == BlankLinesMatchEnd(s, i)
         IN  IF e = 0 THEN <<s[i]>> \o BlankLinesFrom(s, i + 1)
             ELSE <<"\n", "\n">> \o BlankLinesFrom(s, e + 1)

\* re.sub(r'\n\s*\n+', '\n\n', text)
CollapseBlankLines(s) == BlankLinesFrom(s, 1)

clean_text(text) == Strip(CollapseBlankLines(CollapseBlanks(text)))

----------------------------------------------------------------------------
(* Bounds and inputs of SpecClean                                          *)

MaxLen == 5

Alphabet == {"a", " ", "\t", "\n"}

CleanInputs == UNION {[1..n -> Alphabet] : n \in 0..MaxLen}

----------------------------------------------------------------------------
(* The completion clients: groq_fill_missing and groq_answer_question      *)

\* return "AI filling failed."
FILL_SENTINEL ==
    <<"A", "I", " ", "f", "i", "l", "l", "i", "n", "g", " ",
      "f", "a", "i", "l", "e", "d", ".">>

\* return "AI failed to answer."
QA_SENTINEL ==
    <<"A", "I", " ", "f", "a", "i", "l", "e", "d", " ", "t", "o", " ",
      "a", "n", "s", "w", "e", "r", ".">>

\* range(3)
Attempts == 3

\* What one requests.post can do:
\*   "ok"      HTTP 200 whose JSON has choices[0].message.content
\*   "bad200"  HTTP 200 whose body lacks it (json() or the indexing raises)
\*   "non200"  any other status
\*   "exc"     requests.post itself raises
ContentJ == <<" ", "J", "\n">>
ContentBlank == <<" ">>
Contents == {ContentJ, ContentBlank}

Ok(c) == [kind |-> "ok", content |-> c]
Bad200 == [kind |-> "bad200", content |-> <<>>]
Non200 == [kind |-> "non200", content |-> <<>>]
Exc == [kind |-> "exc", content |-> <<>>]

Replies == {Ok(c) : c \in Contents} \cup {Bad200, Non200, Exc}
ReplySeqs == [1..Attempts -> Replies]

NoCall == [ran |-> FALSE]

\* response.status_code, for a reply that is a response
StatusCode(r) == IF r.kind \in {"ok", "bad200"} THEN 200 ELSE 500

\* Mutant of Trimmed: the content is returned as received.
Untrimmed(c) == c

\* response.json()['choices'][0]['message']['content'].strip()
Trimmed(c) == Strip(c)

\* Mutant of HandlerCatches: except requests.RequestException.
CatchesTransportOnly(r) == r.kind = "exc"

\* The bare "except:" catches whatever the try block raises.
HandlerCatches(r) == TRUE

\* requests.post(...) and time.sleep(2), as entries of a call's trace
PostEv == "post"
SleepEv == "sleep"

\* The for loop of both clients from attempt i on; acc is what it did so far.
RECURSIVE RetryLoop(_, _, _, _)
RetryLoop(replies, i, sentinel, acc) ==
    IF i > Attempts
    THEN [ran |-> TRUE, replies |-> replies, raised |-> FALSE,
          returned |-> sentinel, trace |-> acc]
    ELSE LET r == replies[i]
             posted == Append(acc, PostEv)
             raises == r.kind = "exc" \/ (StatusCode(r) = 200 /\ r.kind # "ok")
         IN  IF raises
             THEN IF HandlerCatches(r)
                  THEN RetryLoop(replies, i + 1, sentinel, Append(posted, SleepEv))
                  ELSE [ran |-> TRUE, replies |-> replies, raised |-> TRUE,
                        returned |-> <<>>, trace |-> posted]
             ELSE IF StatusCode(r) = 200
                  THEN [ran |-> TRUE, replies |-> replies, raised |-> FALSE,
                        returned |-> Trimmed(r.content), trace |-> posted]
                  ELSE RetryLoop(replies, i + 1, sentinel, Append(posted, SleepEv))

groq_fill_missing(text, replies) == RetryLoop(replies, 1, FILL_SENTINEL, <<>>)

groq_answer_question(text, q, replies) == RetryLoop(replies, 1, QA_SENTINEL, <<>>)

\* Observations of a finished call
Requests(call) == Cardinality({i \in 1..Len(call.trace) : call.trace[i] = PostEv})
Sleeps(call) == Cardinality({i \in 1..Len(call.trace) : call.trace[i] = SleepEv})
Failed(r) == r.kind # "ok"
AllFailed(call) == \A i \in 1..Attempts : Failed(call.replies[i])

----------------------------------------------------------------------------
(* generate_pdf                                                            *)

\* width, height = LETTER
PageHeight == 792
\* y = height - 40, and the bottom margin of "if y < 40"
Margin == 40
\* y -= 30 after the title
TitleGap == 30
\* y -= 12
LineHeight == 12
\* while len(line) > 110 / line[:110]
WrapWidth == 110

Title ==
    <<"F", "i", "n", "a", "l", " ", "C", "l", "e", "a", "n", " ",
      "F", "o", "r", "m", " ", "(", "A", "I", "-", "f", "i", "l", "l", "e", "d", ")">>

Draw(at, text) == [y |-> at, text |-> text]

\* Mutant of NeedsWrap: wraps a line that exactly fits.
NeedsWrapAtWidth(l) == Len(l) >= WrapWidth

\* while len(line) > 110
NeedsWrap(l) == Len(l) > WrapWidth

\* The while loop: draws line[:110], keeps line[110:], moves the cursor down.
RECURSIVE WrapLoop(_, _, _)
WrapLoop(l, cur, draws) ==
    IF NeedsWrap(l)
    THEN WrapLoop(Slice(l, WrapWidth + 1, Len(l)), cur - LineHeight,
                  Append(draws, Draw(cur, Slice(l, 1, WrapWidth))))
    ELSE [rest |-> l, y |-> cur, draws |-> draws]

\* One iteration of "for line in lines" with the cursor at cur.
RenderOne(l, cur) ==
    IF IsBlankLine(l)
    THEN [y |-> cur - LineHeight, draws |-> <<>>, newpage |-> FALSE]
    ELSE LET w == WrapLoop(l, cur, <<>>)
             after == w.y - LineHeight
             draws == Append(w.draws, Draw(w.y, Strip(w.rest)))
         IN  IF after < Margin
             THEN [y |-> PageHeight - Margin, draws |-> draws, newpage |-> TRUE]
             ELSE [y |-> after, draws |-> draws, newpage |-> FALSE]

(* Bounds and inputs of SpecPdf *)
MaxLineLen == 330
MaxPages == 2
MaxBelow == 30

Run(c, n) == [i \in 1..n |-> c]

LineLens == {n \in {0, 1, 109, 110, 111, 220, 300, MaxLineLen} : n <= MaxLineLen}

\* Lines of a text split on "\n": spaces, a word, spaces, a short word.
LineInputs ==
    {Run(" ", a) \o Run("x", b) \o Run(" ", c) \o Run("x", d) :
        a \in 0..1, b \in LineLens, c \in 0..1, d \in 0..1}

----------------------------------------------------------------------------
(* pdf_to_text and the documents of the session                            *)

Docs == {"A", "B"}

\* Raw page texts pytesseract returns for the pages of a document.
PagesOf(d) ==
    IF d = "A" THEN << <<"a", " ", " ", "b", "\n">> >>
    ELSE << <<"c", "\n", " ", "\n", "\n", "d">>, <<"\t", "e">> >>

\* full_text += clean_text(page_text) + "\n\n", from page i on
RECURSIVE JoinPages(_, _)
JoinPages(ps, i) ==
    IF i > Len(ps) THEN <<>>
    ELSE clean_text(ps[i]) \o <<"\n", "\n">> \o JoinPages(ps, i + 1)

pdf_to_text(d) == JoinPages(PagesOf(d), 1)

----------------------------------------------------------------------------
(* The script, run top to bottom after every user event                    *)

MaxHistory == 2

Questions == {"Q1", "Q2"}

\* Endpoint behaviours offered to a call made during a session.
SessionReplies ==
    { <<Ok(ContentJ), Non200, Non200>>,
      <<Non200, Bad200, Ok(ContentJ)>>,
      <<Exc, Non200, Bad200>> }

Reverse(s) == [i \in 1..Len(s) |-> s[Len(s) + 1 - i]]

\* Mutant of Displayed: the history is listed oldest first.
DisplayedOldestFirst(h) == h

\* for qa in reversed(st.session_state.qa_history)
Displayed(h) == Reverse(h)

\* st.session_state.qa_history.append({"question": question, "answer": answer})
AppendQA(h, q, a) == Append(h, [question |-> q, answer |-> a])

\* One run of the script with the widgets holding file, clicked (the fill
\* button) and q (the question input); ocrOk says whether pdf_to_text returns.
ScriptRun(ev, file, clicked, q, ocrOk, fillReplies, qaReplies) ==
    /\ event' = ev
    /\ uploaded_file' = file
    /\ IF file = "none"
       THEN \* "if uploaded_file:" is false, nothing below it is rendered
            /\ UNCHANGED <<ocr_text, filled_text, qa_history, ocr_runs>>
            /\ question' = ""
            /\ shown' = <<>>
            /\ ocr_error' = FALSE
            /\ fill_call' = NoCall
            /\ qa_call' = NoCall
       ELSE IF ocr_text = <<>> /\ ~ocrOk
       THEN \* pdf_to_text raises: the run ends at the assignment
            /\ UNCHANGED <<ocr_text, filled_text, qa_history, ocr_runs>>
            /\ question' = ""
            /\ shown' = <<>>
            /\ ocr_error' = TRUE
            /\ fill_call' = NoCall
            /\ qa_call' = NoCall
       ELSE LET ocr1 == IF ocr_text = <<>> THEN pdf_to_text(file) ELSE ocr_text
                fill == IF clicked THEN groq_fill_missing(ocr1, fillReplies)
                        ELSE NoCall
                filled1 == IF clicked THEN fill.returned ELSE filled_text
                asks == filled1 # <<>> /\ q # ""
                qa == IF asks THEN groq_answer_question(filled1, q, qaReplies)
                      ELSE NoCall
                hist1 == IF asks THEN AppendQA(qa_history, q, qa.returned)
                         ELSE qa_history
            IN  /\ ocr_text' = ocr1
                /\ ocr_runs' = IF ocr_text = <<>>
                               THEN [ocr_runs EXCEPT ![file] = @ + 1]
                               ELSE ocr_runs
                /\ ocr_error' = FALSE
                /\ fill_call' = fill
                /\ filled_text' = filled1
                /\ qa_call' = qa
                /\ qa_history' = hist1
                /\ Len(hist1) <= MaxHistory
                \* the question input is rendered only under "if filled_text"
                /\ question' = IF filled1 # <<>> THEN q ELSE ""
                /\ shown' = IF filled1 # <<>> THEN Displayed(hist1) ELSE <<>>

\* A run whose nondeterminism is the OCR outcome and the endpoint's replies.
Run1(ev, file, clicked, q) ==
    \E ocrOk \in BOOLEAN, fr \in SessionReplies, qr \in SessionReplies :
        ScriptRun(ev, file, clicked, q, ocrOk, fr, qr)

FillRendered == uploaded_file # "none" /\ ocr_text # <<>>
FilledRendered == FillRendered /\ filled_text # <<>>

\* The user picks a file, or replaces the one in the uploader.
Upload(d) ==
    /\ uploaded_file # d
    /\ Run1("Upload", d, FALSE, question)

\* The user removes the file from the uploader.
RemoveFile ==
    /\ uploaded_file # "none"
    /\ Run1("RemoveFile", "none", FALSE, question)

\* The user presses "AI: Fill Missing Fields".
ClickFill ==
    /\ FillRendered
    /\ Run1("ClickFill", uploaded_file, TRUE, question)

\* The user presses "Download Clean Filled PDF"; Streamlit reruns the script.
ClickDownload ==
    /\ FilledRendered
    /\ Run1("ClickDownload", uploaded_file, FALSE, question)

\* The user types a question and presses Enter.
SubmitQuestion(q) ==
    /\ FilledRendered
    /\ q # question
    /\ Run1("SubmitQuestion", uploaded_file, FALSE, q)

\* The user empties the question input.
ClearQuestion ==
    /\ FilledRendered
    /\ question # ""
    /\ Run1("ClearQuestion", uploaded_file, FALSE, "")

\* The user reruns the page with a file present.
Rerun ==
    /\ uploaded_file # "none"
    /\ Run1("Rerun", uploaded_file, FALSE, question)

SessionIdle ==
    /\ uploaded_file = "none"
    /\ ocr_text = <<>>
    /\ filled_text = <<>>
    /\ qa_history = <<>>
    /\ question = ""
    /\ event = "Start"
    /\ shown = <<>>
    /\ ocr_runs = [d \in Docs |-> 0]
    /\ ocr_error = FALSE
    /\ fill_call = NoCall
    /\ qa_call = NoCall

CleanIdle == cphase = "idle" /\ cin = <<>> /\ cout = <<>> /\ cout2 = <<>>

PdfIdle == ppc = "idle" /\ y = 0 /\ pages = 0 /\ line = <<>> /\ drew = <<>>

Init == SessionIdle /\ CleanIdle /\ PdfIdle

Next ==
    \/ (\E d \in Docs : Upload(d)) /\ UNCHANGED <<cleanVars, pdfVars>>
    \/ RemoveFile /\ UNCHANGED <<cleanVars, pdfVars>>
    \/ ClickFill /\ UNCHANGED <<cleanVars, pdfVars>>
    \/ ClickDownload /\ UNCHANGED <<cleanVars, pdfVars>>
    \/ (\E q \in Questions : SubmitQuestion(q)) /\ UNCHANGED <<cleanVars, pdfVars>>
    \/ ClearQuestion /\ UNCHANGED <<cleanVars, pdfVars>>
    \/ Rerun /\ UNCHANGED <<cleanVars, pdfVars>>

Spec == Init /\ [][Next]_vars

----------------------------------------------------------------------------
(* SpecClient: the two clients called directly with every reply sequence   *)

CallFill(replies) ==
    /\ fill_call' = groq_fill_missing(<<>>, replies)
    /\ UNCHANGED <<uploaded_file, ocr_text, filled_text, qa_history, question,
                   event, shown, ocr_runs, ocr_error, qa_call>>

CallAnswer(replies) ==
    /\ qa_call' = groq_answer_question(<<>>, "Q1", replies)
    /\ UNCHANGED <<uploaded_file, ocr_text, filled_text, qa_history, question,
                   event, shown, ocr_runs, ocr_error, fill_call>>

NextClient ==
    \/ (\E rs \in ReplySeqs : CallFill(rs)) /\ UNCHANGED <<cleanVars, pdfVars>>
    \/ (\E rs \in ReplySeqs : CallAnswer(rs)) /\ UNCHANGED <<cleanVars, pdfVars>>

SpecClient == Init /\ [][NextClient]_vars

----------------------------------------------------------------------------
(* SpecClean: clean_text applied to an input, then to its own output       *)

InitClean ==
    /\ SessionIdle /\ PdfIdle
    /\ cphase = "input" /\ cin \in CleanInputs /\ cout = <<>> /\ cout2 = <<>>

Normalize ==
    /\ cphase = "input"
    /\ cout' = clean_text(cin)
    /\ cphase' = "once"
    /\ UNCHANGED <<cin, cout2>>

Renormalize ==
    /\ cphase = "once"
    /\ cout2' = clean_text(cout)
    /\ cphase' = "twice"
    /\ UNCHANGED <<cin, cout>>

NextClean ==
    \/ Normalize /\ UNCHANGED <<sessionVars, pdfVars>>
    \/ Renormalize /\ UNCHANGED <<sessionVars, pdfVars>>

SpecClean == InitClean /\ [][NextClean]_vars

----------------------------------------------------------------------------
(* SpecPdf: generate_pdf on a text whose lines are chosen as it reads them *)

\* Lines 85 to 92: the canvas, the title and the body font.
Begin ==
    /\ ppc \in {"idle", "done"}
    /\ ppc' = "loop"
    /\ y' = PageHeight - Margin - TitleGap
    /\ pages' = 0
    /\ line' = <<>>
    /\ drew' = <<Draw(PageHeight - Margin, Title)>>

\* One iteration of the for loop, on the next line l of the text.
RenderLine(l) ==
    /\ ppc = "loop"
    /\ pages < MaxPages
    /\ y >= 0 - MaxBelow
    /\ LET r == RenderOne(l, y)
       IN  /\ y' = r.y
           /\ drew' = r.draws
           /\ pages' = IF r.newpage THEN pages + 1 ELSE pages
    /\ line' = l
    /\ ppc' = "loop"

\* c.save(); buffer.seek(0); return buffer
Save ==
    /\ ppc = "loop"
    /\ ppc' = "done"
    /\ UNCHANGED <<y, pages, line, drew>>

NextPdf ==
    \/ Begin /\ UNCHANGED <<sessionVars, cleanVars>>
    \/ (\E l \in LineInputs : RenderLine(l)) /\ UNCHANGED <<sessionVars, cleanVars>>
    \/ Save /\ UNCHANGED <<sessionVars, cleanVars>>

SpecPdf == Init /\ [][NextPdf]_vars

----------------------------------------------------------------------------
(* Properties of the completion clients (SpecClient)                       *)

Calls == {c \in {fill_call, qa_call} : c.ran}

\* C1: in both clients, when every attempt fails (a non-200 status or a
\* raised exception, in any mix) exactly 3 requests are made, the client's
\* own sentinel is returned, the two sentinels differ, and nothing is raised.
C1_ExhaustionReturnsSentinel ==
    /\ FILL_SENTINEL # QA_SENTINEL
    /\ fill_call.ran /\ AllFailed(fill_call) =>
          /\ Requests(fill_call) = 3
          /\ fill_call.returned = FILL_SENTINEL
          /\ ~fill_call.raised
    /\ qa_call.ran /\ AllFailed(qa_call) =>
          /\ Requests(qa_call) = 3
          /\ qa_call.returned = QA_SENTINEL
          /\ ~qa_call.raised

\* Both clients have exhausted their attempts on a mix of statuses and
\* exceptions.
C1_Witness ==
    /\ fill_call.ran /\ qa_call.ran
    /\ fill_call.replies = <<Non200, Exc, Bad200>>
    /\ qa_call.replies = <<Exc, Exc, Non200>>
    /\ fill_call.returned = FILL_SENTINEL
    /\ qa_call.returned = QA_SENTINEL

\* C2 as stated: a well-formed 200 returns the trimmed content with no
\* further request, and the number of requests is the index of the first
\* attempt that returns HTTP 200.
C2_RequestsAreFirst200 ==
    \A c \in Calls :
        LET s200 == {i \in 1..Attempts : StatusCode(c.replies[i]) = 200}
        IN  s200 # {} => Requests(c) = Min(s200)

\* C2 amended: the number of requests is the index of the first attempt that
\* returns HTTP 200 with a well-formed body; that attempt's trimmed content
\* is returned and no request or wait follows it.
C2_RequestsAreFirstWellFormed200 ==
    \A c \in Calls :
        LET oks == {i \in 1..Attempts : c.replies[i].kind = "ok"}
        IN  oks # {} =>
              /\ Requests(c) = Min(oks)
              /\ c.returned = Strip(c.replies[Min(oks)].content)
              /\ c.trace[Len(c.trace)] = PostEv
              /\ ~c.raised

\* A 200 with a malformed body was retried and the second attempt succeeded.
C2_Witness ==
    /\ fill_call.ran
    /\ fill_call.replies[1] = Bad200
    /\ fill_call.replies[2] = Ok(ContentJ)
    /\ Requests(fill_call) = 2
    /\ fill_call.returned = <<"J">>

\* C10: every 2-second wait is followed by another request, a call of k
\* attempts waits k-1 times, and no wait follows the third failed attempt.
C10_EveryWaitIsFollowedByARequest ==
    \A c \in Calls :
        /\ \A i \in 1..Len(c.trace) :
              c.trace[i] = SleepEv =>
                  i < Len(c.trace) /\ c.trace[i + 1] = PostEv
        /\ Sleeps(c) = Requests(c) - 1

----------------------------------------------------------------------------
(* Properties of the session (Spec)                                        *)

\* C3: OCR runs exactly once for each uploaded document and the stored
\* extracted text is the OCR result of the document currently uploaded.
C3_OcrOncePerUploadedDocument ==
    (uploaded_file # "none" /\ ~ocr_error) =>
        /\ ocr_text = pdf_to_text(uploaded_file)
        /\ ocr_runs[uploaded_file] = 1

\* C4: a step commits to session state only after success: a fill whose
\* call exhausts its retries leaves filled_text unchanged, and an OCR
\* failure leaves ocr_text unchanged.
C4_FailedStepCommitsNothing ==
    [][ /\ (fill_call'.ran /\ AllFailed(fill_call')) => filled_text' = filled_text
        /\ ocr_error' => ocr_text' = ocr_text ]_vars

\* C5: every step leaves qa_history unchanged or appends one pair at its
\* end, and whenever the history is rendered it is listed in the exact
\* reverse of creation order.
C5_HistoryAppendOnlyNewestFirst ==
    /\ [][ \/ qa_history' = qa_history
           \/ /\ Len(qa_history') = Len(qa_history) + 1
              /\ SubSeq(qa_history', 1, Len(qa_history)) = qa_history ]_vars
    /\ [](shown = IF uploaded_file # "none" /\ filled_text # <<>>
                  THEN Reverse(qa_history) ELSE <<>>)

\* Q1 then Q2 were asked and Q2 is listed first.
C5_Witness ==
    /\ Len(qa_history) = 2 /\ Len(shown) = 2
    /\ qa_history[1].question = "Q1" /\ qa_history[2].question = "Q2"
    /\ shown[1].question = "Q2" /\ shown[2].question = "Q1"

\* C9: a submitted question runs the Q/A client once and appends one pair;
\* any other event neither runs the Q/A client nor changes the history; the
\* fill client runs only on a click of the fill button.
C9_OnlyASubmittedQuestionAsks ==
    [][ /\ event' = "SubmitQuestion" =>
              qa_call'.ran /\ Len(qa_history') = Len(qa_history) + 1
        /\ event' # "SubmitQuestion" =>
              qa_call' = NoCall /\ qa_history' = qa_history
        /\ fill_call'.ran => event' = "ClickFill" ]_vars

----------------------------------------------------------------------------
(* Properties of clean_text (SpecClean)                                    *)

\* C7: clean_text(clean_text(s)) = clean_text(s) for every input s over
\* spaces, tabs, newlines and ordinary characters.
C7_CleanTextIdempotent == cphase = "twice" => cout2 = cout

\* The second application ran on a text the first one had to change, with
\* a blank-line run and a blank run inside it.
C7_Witness ==
    /\ cphase = "twice"
    /\ cin = <<"a", "\n", "\t", "\n", "a">>
    /\ cout = <<"a", "\n", "\n", "a">>
    /\ cout2 = cout

----------------------------------------------------------------------------
(* Properties of generate_pdf (SpecPdf)                                    *)

\* ceil(n / 110), and 1 for the lines that fit
Segments(n) == IF n <= WrapWidth THEN 1 ELSE (n + WrapWidth - 1) \div WrapWidth

\* What is left of l after the full-width segments
Remainder(l) == Slice(l, WrapWidth * (Segments(Len(l)) - 1) + 1, Len(l))

\* The loop has consumed nothing yet: the cursor is right under the title.
AtFirstLine == ppc = "loop" /\ pages = 0 /\ y = PageHeight - Margin - TitleGap

CountAndWidths(l, d) ==
    /\ Len(d) = Segments(Len(l))
    /\ \A i \in 1..(Len(d) - 1) : Len(d[i].text) = WrapWidth

\* C6 as stated: a non-blank line of n characters is drawn as one segment
\* when n <= 110 and else as ceil(n/110) segments of exactly 110 characters
\* but the last, which holds the remainder; a first line shorter than 110
\* causes no page break.
C6_LastSegmentIsRemainder ==
    [][ (ppc = "loop" /\ ppc' = "loop" /\ ~IsBlankLine(line')) =>
            /\ CountAndWidths(line', drew')
            /\ Len(line') > WrapWidth =>
                  drew'[Len(drew')].text = Remainder(line')
            /\ (AtFirstLine /\ Len(line') < WrapWidth) => pages' = pages ]_vars

\* C6 amended: the same, the last segment being the remainder with its
\* leading and trailing whitespace stripped (and a line that fits being drawn
\* stripped).
C6_LastSegmentIsStrippedRemainder ==
    [][ (ppc = "loop" /\ ppc' = "loop" /\ ~IsBlankLine(line')) =>
            /\ CountAndWidths(line', drew')
            /\ drew'[Len(drew')].text = Strip(Remainder(line'))
            /\ (AtFirstLine /\ Len(line') < WrapWidth) => pages' = pages ]_vars

\* A line of 300 non-space characters was drawn as 110, 110 and 80.
C6_Witness ==
    /\ ppc = "loop"
    /\ line = Run("x", 300)
    /\ Len(drew) = 3
    /\ Len(drew[1].text) = 110 /\ Len(drew[2].text) = 110 /\ Len(drew[3].text) = 80

\* C8: the cursor never stays below the bottom margin after a consumed
\* line, so no segment is drawn with the cursor below the bottom margin.
C8_NothingDrawnBelowMargin ==
    /\ ppc = "loop" => y >= Margin
    /\ \A i \in 1..Len(drew) : drew[i].y >= Margin

====
